---- MODULE Spec2Model ----
(***************************************************************************)
(* Model of src/ML_DAG.py: the Airflow DAG 'stock_price_forecasting'.      *)
(* Eight tasks call execute_snowflake_query, which opens a connection,     *)
(* executes one statement, logs, closes, and on any exception logs the     *)
(* error and re-raises.  The DAG orders the tasks with >> only; a task     *)
(* instance runs when all its upstream tasks succeeded (default trigger    *)
(* rule) and is marked upstream_failed when one of them did not.           *)
(***************************************************************************)
EXTENDS Integers, Sequences, FiniteSets, TLC

\* Number of DAG runs triggered one after another (schedule_interval=None:
\* every run is a manual trigger).
MaxRuns == 2

----------------------------------------------------------------------------
\* SQL statements (ML_DAG.py lines 8-57), abbreviated texts.
USE_ROLE_SQL == "USE ROLE ACCOUNTADMIN;"
USE_WAREHOUSE_SQL == "USE WAREHOUSE COMPUTE_WH;"
USE_DATABASE_SQL == "USE DATABASE STOCK_PRICE;"
USE_SCHEMA_SQL == "USE SCHEMA RAW_DATA;"
TRAINING_DATA_SQL == "SELECT * FROM STOCK_PRICES LIMIT 10;"
CREATE_VIEW_SQL == "CREATE OR REPLACE VIEW STOCK_PRICES_v1 AS SELECT .. FROM STOCK_PRICES;"
GENERATE_PREDICTIONS_SQL == "CREATE OR REPLACE TABLE My_forecasts_2024_10_13 AS SELECT * FROM TABLE(ML.FORECAST(INPUT_DATA => (SELECT * FROM STOCK_PRICES_v1), ..));"
VIEW_PREDICTIONS_SQL == "SELECT * FROM My_forecasts_2024_10_13;"
UNION_PREDICTIONS_WITH_HISTORICAL_SQL == "SELECT .. FROM STOCK_PRICES UNION ALL SELECT .. FROM My_forecasts_2024_10_13;"
INSPECT_ACCURACY_SQL == "CALL lab_1_forecast!SHOW_EVALUATION_METRICS();"
FEATURE_IMPORTANCE_SQL == "CALL lab_1_forecast!EXPLAIN_FEATURE_IMPORTANCE();"

Stmts ==
  { USE_ROLE_SQL, USE_WAREHOUSE_SQL, USE_DATABASE_SQL, USE_SCHEMA_SQL,
    TRAINING_DATA_SQL, CREATE_VIEW_SQL, GENERATE_PREDICTIONS_SQL,
    VIEW_PREDICTIONS_SQL, UNION_PREDICTIONS_WITH_HISTORICAL_SQL,
    INSPECT_ACCURACY_SQL, FEATURE_IMPORTANCE_SQL }

\* The two warehouse objects the pipeline creates.
STOCK_PRICES_v1 == "STOCK_PRICES_v1"
My_forecasts_2024_10_13 == "My_forecasts_2024_10_13"
PipelineObjects == { STOCK_PRICES_v1, My_forecasts_2024_10_13 }

\* The object a statement creates with CREATE OR REPLACE ("" when none).
CreateTarget(s) ==
  CASE s = CREATE_VIEW_SQL -> STOCK_PRICES_v1
    [] s = GENERATE_PREDICTIONS_SQL -> My_forecasts_2024_10_13
    [] OTHER -> ""

\* The pipeline objects a statement reads in its FROM / INPUT_DATA clause.
Reads(s) ==
  CASE s = GENERATE_PREDICTIONS_SQL -> { STOCK_PRICES_v1 }
    [] s = VIEW_PREDICTIONS_SQL -> { My_forecasts_2024_10_13 }
    [] s = UNION_PREDICTIONS_WITH_HISTORICAL_SQL -> { My_forecasts_2024_10_13 }
    [] OTHER -> {}

\* CREATE without OR REPLACE semantics that tolerates an existing object by
\* adding a second one of the same name.
Effect_duplicating(s, objs) ==
  IF CreateTarget(s) = "" THEN objs
  ELSE [objs EXCEPT ![CreateTarget(s)] = @ + 1]

\* Effect of a successfully executed statement on the warehouse: objs maps
\* each pipeline object name to the number of objects of that name.
\* CREATE OR REPLACE leaves exactly one, whether or not one existed.
Effect(s, objs) ==
  IF CreateTarget(s) = "" THEN objs
  ELSE [objs EXCEPT ![CreateTarget(s)] = 1]

\* Outcomes of cursor.execute: a statement reading a missing object fails;
\* any statement may fail for reasons outside the pipeline.
ExecOutcomes(s, objs) ==
  IF \A o \in Reads(s) : objs[o] >= 1 THEN { "ok", "error" } ELSE { "error" }

----------------------------------------------------------------------------
\* Tasks (ML_DAG.py lines 88-130).
setup_snowflake_environment == "setup_snowflake_environment"
inspect_training_data == "inspect_training_data"
create_stock_prices_view == "create_stock_prices_view"
generate_predictions == "generate_predictions"
view_predictions == "view_predictions"
union_predictions_with_historical_data == "union_predictions_with_historical_data"
inspect_model_accuracy == "inspect_model_accuracy"
explain_feature_importance == "explain_feature_importance"

Tasks ==
  { setup_snowflake_environment, inspect_training_data,
    create_stock_prices_view, generate_predictions, view_predictions,
    union_predictions_with_historical_data, inspect_model_accuracy,
    explain_feature_importance }

\* The setup body without its last call.
TaskStatements_setup_three(t) ==
  CASE t = setup_snowflake_environment ->
         << USE_ROLE_SQL, USE_WAREHOUSE_SQL, USE_DATABASE_SQL >>
    [] t = inspect_training_data -> << TRAINING_DATA_SQL >>
    [] t = create_stock_prices_view -> << CREATE_VIEW_SQL >>
    [] t = generate_predictions -> << GENERATE_PREDICTIONS_SQL >>
    [] t = view_predictions -> << VIEW_PREDICTIONS_SQL >>
    [] t = union_predictions_with_historical_data ->
         << UNION_PREDICTIONS_WITH_HISTORICAL_SQL >>
    [] t = inspect_model_accuracy -> << INSPECT_ACCURACY_SQL >>
    [] t = explain_feature_importance -> << FEATURE_IMPORTANCE_SQL >>

\* The setup body with its last two calls in the other order.
TaskStatements_setup_swapped(t) ==
  CASE t = setup_snowflake_environment ->
         << USE_ROLE_SQL, USE_WAREHOUSE_SQL, USE_SCHEMA_SQL, USE_DATABASE_SQL >>
    [] t = inspect_training_data -> << TRAINING_DATA_SQL >>
    [] t = create_stock_prices_view -> << CREATE_VIEW_SQL >>
    [] t = generate_predictions -> << GENERATE_PREDICTIONS_SQL >>
    [] t = view_predictions -> << VIEW_PREDICTIONS_SQL >>
    [] t = union_predictions_with_historical_data ->
         << UNION_PREDICTIONS_WITH_HISTORICAL_SQL >>
    [] t = inspect_model_accuracy -> << INSPECT_ACCURACY_SQL >>
    [] t = explain_feature_importance -> << FEATURE_IMPORTANCE_SQL >>

\* The statements a task's body passes to execute_snowflake_query, in order.
TaskStatements(t) ==
  CASE t = setup_snowflake_environment ->
         << USE_ROLE_SQL, USE_WAREHOUSE_SQL, USE_DATABASE_SQL, USE_SCHEMA_SQL >>
    [] t = inspect_training_data -> << TRAINING_DATA_SQL >>
    [] t = create_stock_prices_view -> << CREATE_VIEW_SQL >>
    [] t = generate_predictions -> << GENERATE_PREDICTIONS_SQL >>
    [] t = view_predictions -> << VIEW_PREDICTIONS_SQL >>
    [] t = union_predictions_with_historical_data ->
         << UNION_PREDICTIONS_WITH_HISTORICAL_SQL >>
    [] t = inspect_model_accuracy -> << INSPECT_ACCURACY_SQL >>
    [] t = explain_feature_importance -> << FEATURE_IMPORTANCE_SQL >>

\* Line 134 lost: inspect_model_accuracy left without an upstream task.
Upstream_no_line_134(t) ==
  CASE t = setup_snowflake_environment -> {}
    [] t = inspect_training_data -> { setup_snowflake_environment }
    [] t = create_stock_prices_view -> { inspect_training_data }
    [] t = generate_predictions -> { create_stock_prices_view }
    [] t = view_predictions -> { generate_predictions }
    [] t = union_predictions_with_historical_data -> { view_predictions }
    [] t = inspect_model_accuracy -> {}
    [] t = explain_feature_importance -> {}

\* create_view_task chained to setup_task instead of
\* inspect_training_data_task.
Upstream_view_after_setup(t) ==
  CASE t = setup_snowflake_environment -> {}
    [] t = inspect_training_data -> { setup_snowflake_environment }
    [] t = create_stock_prices_view -> { setup_snowflake_environment }
    [] t = generate_predictions -> { create_stock_prices_view }
    [] t = view_predictions -> { generate_predictions }
    [] t = union_predictions_with_historical_data -> { view_predictions }
    [] t = inspect_model_accuracy -> { generate_predictions }
    [] t = explain_feature_importance -> { inspect_model_accuracy }

\* union_predictions_task chained to generate_predictions_task directly.
Upstream_union_after_generate(t) ==
  CASE t = setup_snowflake_environment -> {}
    [] t = inspect_training_data -> { setup_snowflake_environment }
    [] t = create_stock_prices_view -> { inspect_training_data }
    [] t = generate_predictions -> { create_stock_prices_view }
    [] t = view_predictions -> { generate_predictions }
    [] t = union_predictions_with_historical_data -> { generate_predictions }
    [] t = inspect_model_accuracy -> { generate_predictions }
    [] t = explain_feature_importance -> { inspect_model_accuracy }

\* One chain of eight: inspect_accuracy_task chained after
\* union_predictions_task instead of generate_predictions_task.
Upstream_linear(t) ==
  CASE t = setup_snowflake_environment -> {}
    [] t = inspect_training_data -> { setup_snowflake_environment }
    [] t = create_stock_prices_view -> { inspect_training_data }
    [] t = generate_predictions -> { create_stock_prices_view }
    [] t = view_predictions -> { generate_predictions }
    [] t = union_predictions_with_historical_data -> { view_predictions }
    [] t = inspect_model_accuracy ->
         { union_predictions_with_historical_data }
    [] t = explain_feature_importance -> { inspect_model_accuracy }

\* The direct upstream tasks declared with >> (lines 132-134).
Upstream(t) ==
  CASE t = setup_snowflake_environment -> {}
    [] t = inspect_training_data -> { setup_snowflake_environment }
    [] t = create_stock_prices_view -> { inspect_training_data }
    [] t = generate_predictions -> { create_stock_prices_view }
    [] t = view_predictions -> { generate_predictions }
    [] t = union_predictions_with_historical_data -> { view_predictions }
    [] t = inspect_model_accuracy -> { generate_predictions }
    [] t = explain_feature_importance -> { inspect_model_accuracy }

\* The six Airflow Variables read by execute_snowflake_query (lines 62-67).
RequiredKeys ==
  { "snowflake_user", "snowflake_password", "snowflake_account",
    "snowflake_warehouse", "snowflake_database", "snowflake_schema" }

\* Variable.get given a default: a missing key no longer raises.
ConnectOutcomes_lenient(vars, valid) ==
  IF valid THEN { "open", "error" } ELSE { "error" }

\* Outcomes of lines 61-68: Variable.get raises KeyError on a missing key,
\* connect raises on rejected credentials, and may fail otherwise (network).
ConnectOutcomes(vars, valid) ==
  IF RequiredKeys \subseteq vars /\ valid THEN { "open", "error" }
  ELSE { "error" }

----------------------------------------------------------------------------
VARIABLES
  variables,   \* keys present in the Airflow Variable store
  credsValid,  \* whether the warehouse accepts the stored credentials
  objects,     \* warehouse: pipeline object name -> number of such objects
  run,         \* number of the current DAG run
  prevOk,      \* the previous run ended with all eight tasks succeeded
  prevObjs,    \* the warehouse objects at the end of the previous run
  taskState,   \* task -> none | running | success | failed | upstream_failed
  pc,          \* task -> position inside execute_snowflake_query
  stmtIdx,     \* task -> index of the statement of the current call
  tconn,       \* task -> index in conns of the current call's connection
  conns,       \* connections opened in this run, in order of opening
  callState,   \* statement -> none | active | returned | raised
  executed,    \* statements passed to cursor.execute in this run, in order
  execErr,     \* statement -> number of cursor.execute calls that raised
  okLog,       \* statement -> number of logging.info lines
  errLog,      \* statement -> number of logging.error lines
  stockPrices, \* rows of table STOCK_PRICES read by the reconciliation query
  forecasts,   \* rows of table My_forecasts_2024_10_13 read by that query
  unionOut,    \* result set of the reconciliation query
  queryDone    \* the reconciliation query has produced its result set

vars ==
  << variables, credsValid, objects, run, prevOk, prevObjs, taskState, pc,
     stmtIdx, tconn, conns, callState, executed, execErr, okLog, errLog,
     stockPrices, forecasts, unionOut, queryDone >>

\* The table contents and result set of the reconciliation query; the
\* orchestration never reads them (no result is fetched from the cursor).
queryVars == << stockPrices, forecasts, unionOut, queryDone >>

envVars == << variables, credsValid >>
runVars == << run, prevOk, prevObjs >>

Terminal == { "success", "failed", "upstream_failed" }

CurStmt(t) == TaskStatements(t)[stmtIdx[t]]

Init ==
  /\ variables \in SUBSET RequiredKeys
  /\ credsValid \in BOOLEAN
  /\ objects \in [PipelineObjects -> {0, 1}]
  /\ run = 1
  /\ prevOk = FALSE
  /\ prevObjs = objects
  /\ taskState = [t \in Tasks |-> "none"]
  /\ pc = [t \in Tasks |-> "idle"]
  /\ stmtIdx = [t \in Tasks |-> 0]
  /\ tconn = [t \in Tasks |-> 0]
  /\ conns = << >>
  /\ callState = [s \in Stmts |-> "none"]
  /\ executed = << >>
  /\ execErr = [s \in Stmts |-> 0]
  /\ okLog = [s \in Stmts |-> 0]
  /\ errLog = [s \in Stmts |-> 0]
  /\ stockPrices = << >>
  /\ forecasts = << >>
  /\ unionOut = << >>
  /\ queryDone = FALSE

\* Trigger rule all_done: a task runs once its upstream tasks have ended,
\* whatever their outcome.
TriggerRule_all_done(t) ==
  \A u \in Upstream(t) : taskState[u] \in Terminal

\* The tasks are declared with a bare @task, so each keeps the default
\* trigger rule all_success.
TriggerRule(t) ==
  \A u \in Upstream(t) : taskState[u] = "success"

\* The scheduler starts a task instance whose trigger rule is met; the task
\* body makes its first call of execute_snowflake_query.  Nothing in the DAG
\* limits how many task instances run at once.
StartTask(t) ==
  /\ taskState[t] = "none"
  /\ TriggerRule(t)
  /\ taskState' = [taskState EXCEPT ![t] = "running"]
  /\ stmtIdx' = [stmtIdx EXCEPT ![t] = 1]
  /\ pc' = [pc EXCEPT ![t] = "connect"]
  /\ callState' = [callState EXCEPT ![TaskStatements(t)[1]] = "active"]
  /\ UNCHANGED << envVars, queryVars, runVars, objects, tconn, conns, executed,
                  execErr, okLog, errLog >>

\* A task with a failed or upstream_failed upstream task is never run.
MarkUpstreamFailed(t) ==
  /\ taskState[t] = "none"
  /\ \E u \in Upstream(t) : taskState[u] \in { "failed", "upstream_failed" }
  /\ taskState' = [taskState EXCEPT ![t] = "upstream_failed"]
  /\ UNCHANGED << envVars, queryVars, runVars, objects, pc, stmtIdx, tconn, conns,
                  callState, executed, execErr, okLog, errLog >>

\* A connection kept at module level: the first call connects, every later
\* call of the run gets the same connection object back.
Connect_cached(t) ==
  /\ pc[t] = "connect"
  /\ \E out \in ConnectOutcomes(variables, credsValid) :
       IF out = "open"
       THEN /\ IF conns = << >>
               THEN /\ conns' = << [stmt |-> CurStmt(t), task |-> t,
                                     state |-> "open", execs |-> 0] >>
                    /\ tconn' = [tconn EXCEPT ![t] = 1]
               ELSE /\ conns' = [conns EXCEPT ![Len(conns)].state = "open"]
                    /\ tconn' = [tconn EXCEPT ![t] = Len(conns)]
            /\ pc' = [pc EXCEPT ![t] = "cursor"]
       ELSE /\ pc' = [pc EXCEPT ![t] = "except"]
            /\ UNCHANGED << conns, tconn >>
  /\ UNCHANGED << envVars, queryVars, runVars, objects, taskState, stmtIdx, callState,
                  executed, execErr, okLog, errLog >>

\* Lines 61-68: read the six Variables and connect; connect returns a new
\* connection object on every call.
Connect(t) ==
  /\ pc[t] = "connect"
  /\ \E out \in ConnectOutcomes(variables, credsValid) :
       IF out = "open"
       THEN /\ conns' = Append(conns, [stmt |-> CurStmt(t), task |-> t,
                                       state |-> "open", execs |-> 0])
            /\ tconn' = [tconn EXCEPT ![t] = Len(conns) + 1]
            /\ pc' = [pc EXCEPT ![t] = "cursor"]
       ELSE /\ pc' = [pc EXCEPT ![t] = "except"]
            /\ UNCHANGED << conns, tconn >>
  /\ UNCHANGED << envVars, queryVars, runVars, objects, taskState, stmtIdx, callState,
                  executed, execErr, okLog, errLog >>

\* Line 70: conn.cursor().
Cursor(t) ==
  /\ pc[t] = "cursor"
  /\ \E out \in { "ok", "error" } :
       pc' = [pc EXCEPT ![t] = IF out = "ok" THEN "execute" ELSE "except"]
  /\ UNCHANGED << envVars, queryVars, runVars, objects, taskState, stmtIdx, tconn,
                  conns, callState, executed, execErr, okLog, errLog >>

\* Lines 71-72: cursor.execute(sql_query), then logging.info on success.
Execute(t) ==
  /\ pc[t] = "execute"
  /\ executed' = Append(executed, CurStmt(t))
  /\ conns' = [conns EXCEPT ![tconn[t]].execs = @ + 1]
  /\ \E out \in ExecOutcomes(CurStmt(t), objects) :
       IF out = "ok"
       THEN /\ objects' = Effect(CurStmt(t), objects)
            /\ okLog' = [okLog EXCEPT ![CurStmt(t)] = @ + 1]
            /\ pc' = [pc EXCEPT ![t] = "cursor_close"]
            /\ UNCHANGED execErr
       ELSE /\ execErr' = [execErr EXCEPT ![CurStmt(t)] = @ + 1]
            /\ pc' = [pc EXCEPT ![t] = "except"]
            /\ UNCHANGED << objects, okLog >>
  /\ UNCHANGED << envVars, queryVars, runVars, taskState, stmtIdx, tconn, callState,
                  errLog >>

\* Line 73: cursor.close().
CursorClose(t) ==
  /\ pc[t] = "cursor_close"
  /\ \E out \in { "ok", "error" } :
       pc' = [pc EXCEPT ![t] = IF out = "ok" THEN "conn_close" ELSE "except"]
  /\ UNCHANGED << envVars, queryVars, runVars, objects, taskState, stmtIdx, tconn,
                  conns, callState, executed, execErr, okLog, errLog >>

\* Line 74: conn.close(); the call then returns and the task body goes on
\* to its next call, or ends and the task instance succeeds.
ConnClose(t) ==
  /\ pc[t] = "conn_close"
  /\ \E out \in { "ok", "error" } :
       IF out = "ok"
       THEN /\ conns' = [conns EXCEPT ![tconn[t]].state = "closed"]
            /\ IF stmtIdx[t] < Len(TaskStatements(t))
               THEN /\ stmtIdx' = [stmtIdx EXCEPT ![t] = @ + 1]
                    /\ pc' = [pc EXCEPT ![t] = "connect"]
                    /\ callState' =
                         [callState EXCEPT
                            ![CurStmt(t)] = "returned",
                            ![TaskStatements(t)[stmtIdx[t] + 1]] = "active"]
                    /\ UNCHANGED taskState
               ELSE /\ pc' = [pc EXCEPT ![t] = "idle"]
                    /\ callState' = [callState EXCEPT ![CurStmt(t)] = "returned"]
                    /\ taskState' = [taskState EXCEPT ![t] = "success"]
                    /\ UNCHANGED stmtIdx
       ELSE /\ pc' = [pc EXCEPT ![t] = "except"]
            /\ UNCHANGED << conns, stmtIdx, callState, taskState >>
  /\ UNCHANGED << envVars, queryVars, runVars, objects, tconn, executed, execErr,
                  okLog, errLog >>

\* An except block that undoes the run's earlier work by dropping the
\* pipeline's objects.
Except_rollback(t) ==
  /\ pc[t] = "except"
  /\ errLog' = [errLog EXCEPT ![CurStmt(t)] = @ + 1]
  /\ callState' = [callState EXCEPT ![CurStmt(t)] = "raised"]
  /\ taskState' = [taskState EXCEPT ![t] = "failed"]
  /\ pc' = [pc EXCEPT ![t] = "idle"]
  /\ objects' = [o \in PipelineObjects |-> 0]
  /\ UNCHANGED << envVars, queryVars, runVars, stmtIdx, tconn, conns, executed,
                  execErr, okLog >>

\* An except block that logs and swallows the exception: the call returns
\* normally and the task body carries on.
Except_swallow(t) ==
  /\ pc[t] = "except"
  /\ errLog' = [errLog EXCEPT ![CurStmt(t)] = @ + 1]
  /\ IF stmtIdx[t] < Len(TaskStatements(t))
     THEN /\ stmtIdx' = [stmtIdx EXCEPT ![t] = @ + 1]
          /\ pc' = [pc EXCEPT ![t] = "connect"]
          /\ callState' =
               [callState EXCEPT
                  ![CurStmt(t)] = "returned",
                  ![TaskStatements(t)[stmtIdx[t] + 1]] = "active"]
          /\ UNCHANGED taskState
     ELSE /\ pc' = [pc EXCEPT ![t] = "idle"]
          /\ callState' = [callState EXCEPT ![CurStmt(t)] = "returned"]
          /\ taskState' = [taskState EXCEPT ![t] = "success"]
          /\ UNCHANGED stmtIdx
  /\ UNCHANGED << envVars, queryVars, runVars, objects, tconn, conns, executed,
                  execErr, okLog >>

\* default_args with retries=1: after the first failure of a task the
\* scheduler puts the task instance back to be run again from its start.
Except_retry(t) ==
  /\ pc[t] = "except"
  /\ errLog' = [errLog EXCEPT ![CurStmt(t)] = @ + 1]
  /\ callState' = [callState EXCEPT ![CurStmt(t)] = "raised"]
  /\ taskState' = [taskState EXCEPT ![t] =
                     IF \A s \in Stmts : errLog[s] = 0 THEN "none"
                     ELSE "failed"]
  /\ pc' = [pc EXCEPT ![t] = "idle"]
  /\ UNCHANGED << envVars, queryVars, runVars, objects, stmtIdx, tconn,
                  conns, executed, execErr, okLog >>

\* Lines 75-77: logging.error, then raise.  No task body catches the
\* exception and the DAG sets no retries, so the task instance fails.
Except(t) ==
  /\ pc[t] = "except"
  /\ errLog' = [errLog EXCEPT ![CurStmt(t)] = @ + 1]
  /\ callState' = [callState EXCEPT ![CurStmt(t)] = "raised"]
  /\ taskState' = [taskState EXCEPT ![t] = "failed"]
  /\ pc' = [pc EXCEPT ![t] = "idle"]
  /\ UNCHANGED << envVars, queryVars, runVars, objects, stmtIdx, tconn, conns,
                  executed, execErr, okLog >>

RunEnded == \A t \in Tasks : taskState[t] \in Terminal
AllSuccess == \A t \in Tasks : taskState[t] = "success"

\* The DAG is triggered again after the previous run ended.
NewRun ==
  /\ RunEnded
  /\ run < MaxRuns
  /\ run' = run + 1
  /\ prevOk' = AllSuccess
  /\ prevObjs' = objects
  /\ taskState' = [t \in Tasks |-> "none"]
  /\ pc' = [t \in Tasks |-> "idle"]
  /\ stmtIdx' = [t \in Tasks |-> 0]
  /\ tconn' = [t \in Tasks |-> 0]
  /\ conns' = << >>
  /\ callState' = [s \in Stmts |-> "none"]
  /\ executed' = << >>
  /\ execErr' = [s \in Stmts |-> 0]
  /\ okLog' = [s \in Stmts |-> 0]
  /\ errLog' = [s \in Stmts |-> 0]
  /\ UNCHANGED << envVars, queryVars, objects >>

Next ==
  \/ \E t \in Tasks : StartTask(t)
  \/ \E t \in Tasks : MarkUpstreamFailed(t)
  \/ \E t \in Tasks : Connect(t)
  \/ \E t \in Tasks : Cursor(t)
  \/ \E t \in Tasks : Execute(t)
  \/ \E t \in Tasks : CursorClose(t)
  \/ \E t \in Tasks : ConnClose(t)
  \/ \E t \in Tasks : Except(t)
  \/ NewRun

Spec == Init /\ [][Next]_vars

\* The scheduler keeps scheduling while a task is eligible, and every call
\* into the driver eventually returns or raises: some enabled step is
\* eventually taken.
FairSpec == Spec /\ WF_vars(Next)

----------------------------------------------------------------------------
\* The reconciliation query UNION_PREDICTIONS_WITH_HISTORICAL_SQL
\* (lines 43-49) as a function of the two tables it reads.

\* Largest number of rows in each of the two tables.
MaxRows == 2

\* The SQL NULL.
NULL == "NULL"

Symbols == { "AAPL", "NVDA" }

\* Rows of STOCK_PRICES: the columns the query selects.  CLOSE is a plain
\* nullable column of a table the pipeline does not create.
StockPriceRows ==
  [SYMBOL : Symbols, DATE : { "2024-10-11" }, CLOSE : { NULL, "227.55" }]

\* Rows of My_forecasts_2024_10_13: the columns the query selects.
ForecastValues ==
  { [forecast |-> "229.10", lower_bound |-> "221.30", upper_bound |-> "236.90"],
    [forecast |-> NULL, lower_bound |-> NULL, upper_bound |-> NULL] }

ForecastRows ==
  { [SYMBOL |-> sy, DATE_v1 |-> "2024-10-14", forecast |-> v.forecast,
     lower_bound |-> v.lower_bound, upper_bound |-> v.upper_bound] :
      sy \in Symbols, v \in ForecastValues }

SeqsUpTo(S, n) == UNION { [1..k -> S] : k \in 0..n }

\* Line 44: SELECT SYMBOL, DATE, CLOSE AS actual, NULL AS forecast,
\* NULL AS lower_bound, NULL AS upper_bound FROM STOCK_PRICES.
SelectHistorical(r) ==
  [SYMBOL |-> r.SYMBOL, DATE |-> r.DATE, actual |-> r.CLOSE,
   forecast |-> NULL, lower_bound |-> NULL, upper_bound |-> NULL]

\* Line 47: SELECT SYMBOL, DATE_v1 AS DATE, NULL AS actual, forecast,
\* lower_bound, upper_bound FROM My_forecasts_2024_10_13.
SelectForecast(r) ==
  [SYMBOL |-> r.SYMBOL, DATE |-> r.DATE_v1, actual |-> NULL,
   forecast |-> r.forecast, lower_bound |-> r.lower_bound,
   upper_bound |-> r.upper_bound]

RECURSIVE Distinct(_)
Distinct(q) ==
  IF q = << >> THEN << >>
  ELSE LET h == Distinct(SubSeq(q, 1, Len(q) - 1))
       IN  IF q[Len(q)] \in { h[i] : i \in DOMAIN h } THEN h
           ELSE Append(h, q[Len(q)])

\* UNION in place of UNION ALL: duplicate rows are removed.
UnionQuery_distinct(sp, fc) ==
  Distinct([i \in DOMAIN sp |-> SelectHistorical(sp[i])]
           \o [i \in DOMAIN fc |-> SelectForecast(fc[i])])

\* Lines 44-48: the two SELECTs joined by UNION ALL, which keeps every row
\* of both.
UnionQuery(sp, fc) ==
  [i \in DOMAIN sp |-> SelectHistorical(sp[i])]
    \o [i \in DOMAIN fc |-> SelectForecast(fc[i])]

\* The orchestration state while the query is studied on its own: a valid
\* configuration, both pipeline objects present, no task started.
InitUnion ==
  /\ variables = RequiredKeys
  /\ credsValid = TRUE
  /\ objects = [o \in PipelineObjects |-> 1]
  /\ run = 1
  /\ prevOk = FALSE
  /\ prevObjs = objects
  /\ taskState = [t \in Tasks |-> "none"]
  /\ pc = [t \in Tasks |-> "idle"]
  /\ stmtIdx = [t \in Tasks |-> 0]
  /\ tconn = [t \in Tasks |-> 0]
  /\ conns = << >>
  /\ callState = [s \in Stmts |-> "none"]
  /\ executed = << >>
  /\ execErr = [s \in Stmts |-> 0]
  /\ okLog = [s \in Stmts |-> 0]
  /\ errLog = [s \in Stmts |-> 0]
  /\ stockPrices \in SeqsUpTo(StockPriceRows, MaxRows)
  /\ forecasts \in SeqsUpTo(ForecastRows, MaxRows)
  /\ unionOut = << >>
  /\ queryDone = FALSE

\* The warehouse evaluates the reconciliation query over the two tables.
EvaluateUnionQuery ==
  /\ ~queryDone
  /\ unionOut' = UnionQuery(stockPrices, forecasts)
  /\ queryDone' = TRUE
  /\ UNCHANGED << envVars, runVars, objects, taskState, pc, stmtIdx, tconn,
                  conns, callState, executed, execErr, okLog, errLog,
                  stockPrices, forecasts >>

NextUnion == EvaluateUnionQuery

SpecUnion == InitUnion /\ [][NextUnion]_vars

----------------------------------------------------------------------------
\* Vocabulary of the properties.

\* The dependency graph as the specification states it: <<u, t>> means
\* t depends directly on u.
DeclaredEdges ==
  { << "setup_snowflake_environment", "inspect_training_data" >>,
    << "inspect_training_data", "create_stock_prices_view" >>,
    << "create_stock_prices_view", "generate_predictions" >>,
    << "generate_predictions", "view_predictions" >>,
    << "view_predictions", "union_predictions_with_historical_data" >>,
    << "generate_predictions", "inspect_model_accuracy" >>,
    << "inspect_model_accuracy", "explain_feature_importance" >> }

DeclaredPrerequisites(t) == { e[1] : e \in { d \in DeclaredEdges : d[2] = t } }

RECURSIVE Closure(_, _)
Closure(S, n) ==
  IF n = 0 THEN S
  ELSE Closure(S \cup { e[2] : e \in { d \in DeclaredEdges : d[1] \in S } },
               n - 1)

\* The tasks that depend on k, directly or transitively.
Dependents(k) == Closure({ k }, Cardinality(Tasks)) \ { k }

MainChain ==
  { "setup_snowflake_environment", "inspect_training_data",
    "create_stock_prices_view", "generate_predictions" }
BranchA == { "view_predictions", "union_predictions_with_historical_data" }
BranchB == { "inspect_model_accuracy", "explain_feature_importance" }

Range(q) == { q[i] : i \in DOMAIN q }
Count(s, q) == Cardinality({ i \in DOMAIN q : q[i] = s })
Pos(s, q) == CHOOSE i \in DOMAIN q : q[i] = s
Before(a, b) ==
  /\ a \in Range(executed)
  /\ b \in Range(executed)
  /\ Pos(a, executed) < Pos(b, executed)

TaskOf(s) == CHOOSE t \in Tasks : s \in Range(TaskStatements(t))
IssuedSQL(t) == Range(TaskStatements(t)) \cap Range(executed) # {}
AnyFailed == \E t \in Tasks : taskState[t] = "failed"
Started(t) == taskState[t] \in { "running", "success", "failed" }

----------------------------------------------------------------------------
\* C1: in every state of a run, when a step has failed no step that depends
\* on it directly or transitively has started or has issued a SQL statement.
C1_FailureBlocksDependents ==
  \A k \in Tasks :
    taskState[k] = "failed" =>
      \A t \in Dependents(k) : ~Started(t) /\ ~IssuedSQL(t)

\* generate_predictions failed and the run ended with its four dependents
\* never run.
C1_Witness ==
  /\ taskState["generate_predictions"] = "failed"
  /\ RunEnded
  /\ \A t \in BranchA \cup BranchB : taskState[t] = "upstream_failed"
  /\ Len(executed) = 7

\* C2: in every state, a step that has started executing has every declared
\* prerequisite completed successfully.
C2_PrerequisitesSucceeded ==
  \A t \in Tasks :
    Started(t) => \A u \in DeclaredPrerequisites(t) : taskState[u] = "success"

\* The last step of the second branch is executing.
C2_Witness ==
  /\ taskState["explain_feature_importance"] = "running"
  /\ pc["explain_feature_importance"] = "execute"

\* C3: when all eight steps of a run succeeded, every statement was executed
\* once, in the order setup, inspect training data, create view, generate
\* predictions, then view before union and accuracy before feature
\* importance.
C3_SuccessfulRunOrder ==
  AllSuccess =>
    /\ Len(executed) = 11
    /\ \A s \in Stmts : Count(s, executed) = 1
    /\ Before(USE_ROLE_SQL, USE_WAREHOUSE_SQL)
    /\ Before(USE_WAREHOUSE_SQL, USE_DATABASE_SQL)
    /\ Before(USE_DATABASE_SQL, USE_SCHEMA_SQL)
    /\ Before(USE_SCHEMA_SQL, TRAINING_DATA_SQL)
    /\ Before(TRAINING_DATA_SQL, CREATE_VIEW_SQL)
    /\ Before(CREATE_VIEW_SQL, GENERATE_PREDICTIONS_SQL)
    /\ Before(GENERATE_PREDICTIONS_SQL, VIEW_PREDICTIONS_SQL)
    /\ Before(GENERATE_PREDICTIONS_SQL, INSPECT_ACCURACY_SQL)
    /\ Before(VIEW_PREDICTIONS_SQL, UNION_PREDICTIONS_WITH_HISTORICAL_SQL)
    /\ Before(INSPECT_ACCURACY_SQL, FEATURE_IMPORTANCE_SQL)

\* A successful run in which the branches interleaved against the textual
\* order: accuracy, view, feature importance, union.
C3_Witness ==
  /\ AllSuccess
  /\ Before(INSPECT_ACCURACY_SQL, VIEW_PREDICTIONS_SQL)
  /\ Before(VIEW_PREDICTIONS_SQL, FEATURE_IMPORTANCE_SQL)
  /\ Before(FEATURE_IMPORTANCE_SQL, UNION_PREDICTIONS_WITH_HISTORICAL_SQL)

\* C4 as stated: once any step has failed, no other step of the run starts
\* executing afterwards.
C4_Original ==
  [][ AnyFailed =>
        \A t \in Tasks : taskState[t] = "none" => taskState'[t] # "running"
    ]_vars

\* C4 amended: a failure stops the run along the dependency paths only.
\* Once one of the first four steps has failed no step starts afterwards;
\* once a step of a branch has failed no step of that branch starts
\* afterwards.
C4_StopsAlongDependencies ==
  [][ /\ (\E k \in MainChain : taskState[k] = "failed") =>
           \A t \in Tasks : taskState[t] = "none" => taskState'[t] # "running"
      /\ \A B \in { BranchA, BranchB } :
           (\E k \in B : taskState[k] = "failed") =>
             \A t \in B : taskState[t] = "none" => taskState'[t] # "running"
    ]_vars

\* view_predictions failed, union was never run, and the other branch ran
\* to completion afterwards.
C4_Witness ==
  /\ taskState["view_predictions"] = "failed"
  /\ taskState["union_predictions_with_historical_data"] = "upstream_failed"
  /\ taskState["explain_feature_importance"] = "success"
  /\ Before(VIEW_PREDICTIONS_SQL, INSPECT_ACCURACY_SQL)

\* C5 as stated: a connection opened by a call of execute_snowflake_query
\* is closed once that call has returned or raised.
C5_ConnectionReleased ==
  \A i \in DOMAIN conns :
    callState[conns[i].stmt] \in { "returned", "raised" } =>
      conns[i].state = "closed"

\* C6: when the credentials are invalid or one of the six configuration
\* keys is missing, no cursor.execute happens in the run, no step succeeds,
\* and the run ends with the setup step failed.
BadConfig ==
  \/ ~credsValid
  \/ \E k \in { "snowflake_user", "snowflake_password", "snowflake_account",
                "snowflake_warehouse", "snowflake_database",
                "snowflake_schema" } : k \notin variables

C6_BadConfigNoSQL ==
  BadConfig =>
    /\ executed = << >>
    /\ conns = << >>
    /\ \A t \in Tasks : taskState[t] # "success"
    /\ RunEnded => taskState["setup_snowflake_environment"] = "failed"

\* Valid credentials but the schema key is missing: the run ended at the
\* first call, with the error logged and nothing executed.
C6_Witness ==
  /\ credsValid
  /\ variables = RequiredKeys \ { "snowflake_schema" }
  /\ RunEnded
  /\ errLog[USE_ROLE_SQL] = 1
  /\ executed = << >>

\* C7: no statement is passed to cursor.execute twice in a run, and once a
\* call whose cursor.execute raised has ended, the error has been logged
\* exactly once, the call has raised, and the step containing it has
\* failed.
C7_FailureLoggedOnceAndRaised ==
  \A s \in Stmts :
    /\ Count(s, executed) <= 1
    /\ errLog[s] <= 1
    /\ (execErr[s] >= 1 /\ pc[TaskOf(s)] # "except") =>
         /\ execErr[s] = 1
         /\ errLog[s] = 1
         /\ callState[s] = "raised"
         /\ taskState[TaskOf(s)] = "failed"

\* The third setup statement failed in cursor.execute; the run has ended.
C7_Witness ==
  /\ execErr[USE_DATABASE_SQL] = 1
  /\ errLog[USE_DATABASE_SQL] = 1
  /\ taskState["setup_snowflake_environment"] = "failed"
  /\ executed = << USE_ROLE_SQL, USE_WAREHOUSE_SQL, USE_DATABASE_SQL >>
  /\ RunEnded

\* C8 as stated: in every state at most one step is executing.
C8_Original == Cardinality({ t \in Tasks : taskState[t] = "running" }) <= 1

\* C8 amended: execution is sequential along every dependency path.  Two
\* steps that execute at the same time are one from each branch after
\* generate_predictions; so at most two steps execute at once, and never
\* two related by dependency.
C8_SequentialAlongDependencies ==
  \A t1, t2 \in Tasks :
    (t1 # t2 /\ taskState[t1] = "running" /\ taskState[t2] = "running") =>
      \/ t1 \in BranchA /\ t2 \in BranchB
      \/ t1 \in BranchB /\ t2 \in BranchA

\* One step of each branch is executing at the same time.
C8_Witness ==
  /\ taskState["view_predictions"] = "running"
  /\ pc["view_predictions"] = "execute"
  /\ taskState["explain_feature_importance"] = "running"
  /\ pc["explain_feature_importance"] = "execute"

\* C9: when a run in which all steps succeeded follows a run in which all
\* steps succeeded, the warehouse holds the same pipeline objects as after
\* the earlier run: exactly one view STOCK_PRICES_v1 and one table
\* My_forecasts_2024_10_13.
C9_RerunIdempotent ==
  (run >= 2 /\ prevOk /\ AllSuccess) =>
    /\ objects = prevObjs
    /\ objects["STOCK_PRICES_v1"] = 1
    /\ objects["My_forecasts_2024_10_13"] = 1

\* The second of two successful runs has ended.
C9_Witness ==
  /\ run = 2
  /\ prevOk
  /\ AllSuccess
  /\ prevObjs = [o \in PipelineObjects |-> 1]

\* C10: when a step has failed, the object created by each earlier
\* successful creating step of the run still exists, one of it, also when
\* the run has ended.
C10_NoRollback ==
  AnyFailed =>
    /\ taskState["create_stock_prices_view"] = "success" =>
         objects["STOCK_PRICES_v1"] = 1
    /\ taskState["generate_predictions"] = "success" =>
         objects["My_forecasts_2024_10_13"] = 1

\* Both objects were created in a run that started with an empty warehouse,
\* then view_predictions failed and the run ended.
C10_Witness ==
  /\ run = 1
  /\ prevObjs = [o \in PipelineObjects |-> 0]
  /\ taskState["generate_predictions"] = "success"
  /\ taskState["view_predictions"] = "failed"
  /\ RunEnded
  /\ objects = [o \in PipelineObjects |-> 1]

\* C11: every connection is opened by one call of execute_snowflake_query
\* and belongs to it alone: no connection executes more than one statement,
\* no two calls share a connection, every executed statement ran on the
\* connection of its own call, and a call that returned opened exactly one
\* connection, executed its one statement on it and closed it.
InCall(t) == pc[t] \in { "cursor", "execute", "cursor_close", "conn_close" }

RECURSIVE SumExecs(_, _)
SumExecs(t, n) ==
  IF n = 0 THEN 0
  ELSE SumExecs(t, n - 1) + (IF conns[n].task = t THEN conns[n].execs ELSE 0)

\* Number of cursor.execute calls made by task t in this run.
ExecsBy(t) == SumExecs(t, Len(conns))

\* C12 as stated: every step that succeeded executed exactly one statement.
C12_Original ==
  \A t \in Tasks : taskState[t] = "success" => ExecsBy(t) = 1

\* C12 amended: a step that succeeded executed exactly one statement,
\* except the setup step, which executed exactly four.
C12_StatementsPerStep ==
  \A t \in Tasks :
    taskState[t] = "success" =>
      ExecsBy(t) = (IF t = "setup_snowflake_environment" THEN 4 ELSE 1)

\* A first run in which all steps succeeded: four statements by setup and
\* one by each of the seven other steps.
C12_Witness ==
  /\ run = 1
  /\ AllSuccess
  /\ ExecsBy("setup_snowflake_environment") = 4
  /\ \A t \in Tasks \ { "setup_snowflake_environment" } : ExecsBy(t) = 1

\* C13: the setup step issues USE ROLE, USE WAREHOUSE, USE DATABASE, USE
\* SCHEMA in this order, each only after the call for the previous one
\* returned; once the call for one of them has raised, the later setup
\* statements are never executed, the setup step has failed, and no other
\* step has started or executed a statement.
SetupOrder ==
  << "USE ROLE ACCOUNTADMIN;", "USE WAREHOUSE COMPUTE_WH;",
     "USE DATABASE STOCK_PRICE;", "USE SCHEMA RAW_DATA;" >>

C13_SetupOrderAndAbort ==
  \A i \in 1..4 :
    /\ SetupOrder[i] \in Range(executed) =>
         \A j \in 1..(i - 1) :
           /\ callState[SetupOrder[j]] = "returned"
           /\ Before(SetupOrder[j], SetupOrder[i])
    /\ callState[SetupOrder[i]] = "raised" =>
         /\ \A j \in (i + 1)..4 :
              /\ SetupOrder[j] \notin Range(executed)
              /\ callState[SetupOrder[j]] = "none"
         /\ taskState["setup_snowflake_environment"] = "failed"
         /\ \A t \in Tasks \ { "setup_snowflake_environment" } : ~Started(t)
         /\ Range(executed) \subseteq Range(SetupOrder)

\* USE WAREHOUSE failed in cursor.execute after USE ROLE succeeded; the run
\* ended with only these two statements executed.
C13_Witness ==
  /\ callState[USE_WAREHOUSE_SQL] = "raised"
  /\ execErr[USE_WAREHOUSE_SQL] = 1
  /\ executed = << USE_ROLE_SQL, USE_WAREHOUSE_SQL >>
  /\ RunEnded

\* C14 as stated: for all historical and forecast rows, the result of the
\* reconciliation query has one row per input row, every row has exactly
\* one of actual and forecast non-null, rows from STOCK_PRICES have actual
\* populated and the three forecast columns null, rows from the forecast
\* table have the three forecast columns populated and actual null.
C14_Original ==
  queryDone =>
    /\ Len(unionOut) = Len(stockPrices) + Len(forecasts)
    /\ \A i \in DOMAIN unionOut :
         (unionOut[i].actual # "NULL") # (unionOut[i].forecast # "NULL")
    /\ \A i \in 1..Len(stockPrices) :
         /\ unionOut[i].actual # "NULL"
         /\ unionOut[i].forecast = "NULL"
         /\ unionOut[i].lower_bound = "NULL"
         /\ unionOut[i].upper_bound = "NULL"
    /\ \A i \in (Len(stockPrices) + 1)..Len(unionOut) :
         /\ unionOut[i].actual = "NULL"
         /\ unionOut[i].forecast # "NULL"
         /\ unionOut[i].lower_bound # "NULL"
         /\ unionOut[i].upper_bound # "NULL"

\* C14 amended: the result has one row per input row of either table (no
\* deduplication).  A row from STOCK_PRICES carries SYMBOL, DATE and CLOSE
\* as actual, with the three forecast columns null; a row from the forecast
\* table carries SYMBOL, DATE_v1 as DATE and its forecast, lower_bound,
\* upper_bound unchanged, with actual null.  So no row has both actual and
\* forecast non-null, and a row has exactly one of them non-null when its
\* source value (CLOSE, respectively forecast) is not null.
C14_ReconciliationRows ==
  queryDone =>
    /\ Len(unionOut) = Len(stockPrices) + Len(forecasts)
    /\ \A i \in 1..Len(stockPrices) :
         /\ unionOut[i].SYMBOL = stockPrices[i].SYMBOL
         /\ unionOut[i].DATE = stockPrices[i].DATE
         /\ unionOut[i].actual = stockPrices[i].CLOSE
         /\ unionOut[i].forecast = "NULL"
         /\ unionOut[i].lower_bound = "NULL"
         /\ unionOut[i].upper_bound = "NULL"
         /\ stockPrices[i].CLOSE # "NULL" =>
              (unionOut[i].actual # "NULL") # (unionOut[i].forecast # "NULL")
    /\ \A j \in 1..Len(forecasts) :
         LET row == unionOut[Len(stockPrices) + j] IN
           /\ row.SYMBOL = forecasts[j].SYMBOL
           /\ row.DATE = forecasts[j].DATE_v1
           /\ row.actual = "NULL"
           /\ row.forecast = forecasts[j].forecast
           /\ row.lower_bound = forecasts[j].lower_bound
           /\ row.upper_bound = forecasts[j].upper_bound
           /\ forecasts[j].forecast # "NULL" =>
                (row.actual # "NULL") # (row.forecast # "NULL")
    /\ \A i \in DOMAIN unionOut :
         ~(unionOut[i].actual # "NULL" /\ unionOut[i].forecast # "NULL")

\* The query ran over two identical historical rows with a CLOSE and two
\* identical forecast rows with a forecast: four rows come out.
C14_Witness ==
  /\ queryDone
  /\ Len(stockPrices) = 2
  /\ stockPrices[1] = stockPrices[2]
  /\ stockPrices[1].CLOSE # "NULL"
  /\ Len(forecasts) = 2
  /\ forecasts[1] = forecasts[2]
  /\ forecasts[1].forecast # "NULL"
  /\ Len(unionOut) = 4

\* C15: every run reaches a state in which each step is succeeded, failed
\* or upstream_failed (never executed because a prerequisite failed), and
\* within a run a step starts executing at most once: it only moves from
\* not started to running to an end state, which it keeps.
StateRank(st) ==
  CASE st = "none" -> 0
    [] st = "running" -> 1
    [] OTHER -> 2

C15_RunTerminates ==
  /\ \A r \in 1..MaxRuns : (run = r) ~> (run = r /\ RunEnded)
  /\ [][ run' = run =>
           \A t \in Tasks :
             /\ StateRank(taskState'[t]) >= StateRank(taskState[t])
             /\ taskState[t] \in { "success", "failed", "upstream_failed" } =>
                  taskState'[t] = taskState[t]
       ]_vars

\* A run ended with one step failed, one branch never executed and the
\* other branch succeeded.
C15_Witness ==
  /\ RunEnded
  /\ taskState["inspect_model_accuracy"] = "failed"
  /\ taskState["explain_feature_importance"] = "upstream_failed"
  /\ taskState["union_predictions_with_historical_data"] = "success"

\* C16: the two branches after generate_predictions are independent under
\* failure.  A step of one branch is never left unexecuted because of the
\* other branch: it is upstream_failed only when its own prerequisite
\* failed or was not executed.  After a failure in one branch the first
\* step of the other branch still executes, and so does its second step
\* once the first has succeeded.
NotRun(t) == taskState[t] \in { "failed", "upstream_failed" }

C16_BranchesIndependent ==
  /\ [] /\ taskState["inspect_model_accuracy"] = "upstream_failed" =>
             NotRun("generate_predictions")
        /\ taskState["explain_feature_importance"] = "upstream_failed" =>
             NotRun("inspect_model_accuracy")
        /\ taskState["view_predictions"] = "upstream_failed" =>
             NotRun("generate_predictions")
        /\ taskState["union_predictions_with_historical_data"]
             = "upstream_failed" => NotRun("view_predictions")
  /\ (\E a \in BranchA : taskState[a] = "failed")
       ~> Started("inspect_model_accuracy")
  /\ ((\E a \in BranchA : taskState[a] = "failed")
        /\ taskState["inspect_model_accuracy"] = "success")
       ~> Started("explain_feature_importance")
  /\ (\E b \in BranchB : taskState[b] = "failed")
       ~> Started("view_predictions")
  /\ ((\E b \in BranchB : taskState[b] = "failed")
        /\ taskState["view_predictions"] = "success")
       ~> Started("union_predictions_with_historical_data")

\* The union step failed first; the other branch then executed both of
\* its steps successfully.
C16_Witness ==
  /\ taskState["union_predictions_with_historical_data"] = "failed"
  /\ taskState["explain_feature_importance"] = "success"
  /\ Before(UNION_PREDICTIONS_WITH_HISTORICAL_SQL, INSPECT_ACCURACY_SQL)
  /\ RunEnded

\* C17 as stated: a call of execute_snowflake_query that has ended logged
\* exactly one line for its statement: the success line when it returned,
\* the error line when it raised; never both.
C17_ExactlyOneOutcomeLogged ==
  \A s \in Stmts :
    /\ callState[s] = "returned" => (okLog[s] = 1 /\ errLog[s] = 0)
    /\ callState[s] = "raised" => (okLog[s] = 0 /\ errLog[s] = 1)
====
